---- MODULE Spec2Model ----
(***************************************************************************)
(* Visual Authentication Gateway (src/backend/server.js, the session-based *)
(* server of lines 42-446): the session table, POST /start-auth, POST      *)
(* /verify-auth and the periodic cleanupExpiredSessions.                   *)
(*                                                                         *)
(* Node runs every request handler and every timer callback to completion  *)
(* on one thread, so each handler is one atomic action.                    *)
(*                                                                         *)
(* Symbols: the emojis of the source are written as ASCII names            *)
(*   apple, headphones, fire, rocket, star, lock, key, gem, target,        *)
(*   glowstar, zap, lockkey  (EMOJI_POOL order, lines 90-93).              *)
(* JavaScript values that cross the HTTP boundary are tagged records       *)
(*   [t |-> "string", s |-> ...], [t |-> "array", items |-> <<...>>], ...  *)
(* so that typeof, truthiness and string conversion are modelled as the    *)
(* language defines them.                                                  *)
(***************************************************************************)
EXTENDS Integers, Sequences, FiniteSets, TLC

(***************************************************************************)
(* Program constants                                                       *)
(***************************************************************************)
SESSION_TIMEOUT_MS == 60000

CLEANUP_INTERVAL_MS == 30000

MAX_ATTEMPTS == 3

GRID_SIZE == 9

PATTERN_LENGTH == 3

(***************************************************************************)
(* Bounds of the model                                                     *)
(***************************************************************************)
\* the clock advances in steps of CLEANUP_INTERVAL_MS, at most MaxTicks times
MaxTicks == 3

(***************************************************************************)
(* JavaScript values                                                       *)
(***************************************************************************)
Undefined == [t |-> "undefined"]

Null == [t |-> "null"]

Str(s) == [t |-> "string", s |-> s]

Bool(b) == [t |-> "boolean", b |-> b]

Arr(items) == [t |-> "array", items |-> items]

\* typeof v
TypeOf(v) ==
  CASE v.t = "string" -> "string"
    [] v.t = "boolean" -> "boolean"
    [] v.t = "undefined" -> "undefined"
    [] OTHER -> "object"

\* ToBoolean(v), as used by !v
Truthy(v) ==
  CASE v.t = "string" -> v.s # ""
    [] v.t = "boolean" -> v.b
    [] v.t = "undefined" -> FALSE
    [] v.t = "null" -> FALSE
    [] OTHER -> TRUE

RECURSIVE JsToString(_)
RECURSIVE Join(_, _)

\* Array.prototype.join: undefined and null elements give the empty string,
\* every other element is converted with ToString
JoinElement(v) == IF v.t \in {"undefined", "null"} THEN "" ELSE JsToString(v)

Join(items, sep) ==
  IF Len(items) = 0 THEN ""
  ELSE IF Len(items) = 1 THEN JoinElement(items[1])
  ELSE JoinElement(items[1]) \o sep \o Join(Tail(items), sep)

\* ToString(v): an array converts to its elements joined with ","
JsToString(v) ==
  CASE v.t = "string" -> v.s
    [] v.t = "boolean" -> IF v.b THEN "true" ELSE "false"
    [] v.t = "undefined" -> "undefined"
    [] v.t = "null" -> "null"
    [] v.t = "array" -> Join(v.items, ",")

\* crypto.createHash('sha256').update(s).digest('hex'): a collision-free
\* digest, written as the tagged preimage
Sha256(s) == Str("sha256(" \o s \o ")")

\* lines 111-114
hashVisualPattern(pattern) == Sha256(Join(pattern.items, "|"))

(***************************************************************************)
(* Configuration data                                                      *)
(***************************************************************************)
\* lines 90-93
EMOJI_POOL ==
  << "apple", "headphones", "fire", "rocket", "star", "lock",
     "key", "gem", "target", "glowstar", "zap", "lockkey" >>

\* line 208: the pattern start-auth builds every grid from
DemoSecretPattern == << "apple", "headphones", "fire" >>

\* lines 80-87: the own properties of USER_DATABASE.  The secretHash literal
\* 71d9...13c8 is the SHA-256 of the three demo symbols joined with "|".
UserRegistry ==
  [ U123 |-> [ userId |-> "U123",
               secretPattern |-> DemoSecretPattern,
               secretHash |-> Sha256("apple|headphones|fire") ] ]

\* USER_DATABASE is an object literal: a property read also finds what it
\* inherits from Object.prototype
ObjectPrototypeKeys == { "constructor", "toString", "hasOwnProperty" }

\* line 195: USER_DATABASE[user_id] for a string user_id
UserLookup(user_id) ==
  IF user_id \in DOMAIN UserRegistry
    THEN [ t |-> "object", secretHash |-> UserRegistry[user_id].secretHash ]
  ELSE IF user_id \in ObjectPrototypeKeys
    THEN [ t |-> "function", secretHash |-> Undefined ]
  ELSE Undefined

(***************************************************************************)
(* Grid generation (lines 121-153).  crypto.randomInt is an input: the     *)
(* operators take the values it returns as a sequence of draws.            *)
(***************************************************************************)
SeqToSet(seq) == { seq[k] : k \in 1..Len(seq) }

\* the swap loses the element at index i: shuffled[i] = shuffled[j] only
SwapOverwrite(shuffled, i, j) == [ shuffled EXCEPT ![i + 1] = shuffled[j + 1] ]

\* [shuffled[i], shuffled[j]] = [shuffled[j], shuffled[i]], i and j 0-based
Swap(shuffled, i, j) ==
  [ shuffled EXCEPT ![i + 1] = shuffled[j + 1], ![j + 1] = shuffled[i + 1] ]

RECURSIVE ShuffleFrom(_, _, _)

\* the loop of lines 123-126 from index i down to 1; draws[1] is the j drawn
\* for index i (0 <= j <= i)
ShuffleFrom(shuffled, i, draws) ==
  IF i <= 0 \/ Len(draws) = 0 THEN shuffled
  ELSE ShuffleFrom(Swap(shuffled, i, draws[1]), i - 1, Tail(draws))

\* lines 121-128
shuffleArray(array, draws) == ShuffleFrom(array, Len(array) - 1, draws)

\* line 141 for a given pool: pool.filter(e => !secretPattern.includes(e))
AvailableIn(emojiPool, secretPattern) ==
  SelectSeq(emojiPool, LAMBDA e : e \notin SeqToSet(secretPattern))

\* line 141
AvailableEmojis(secretPattern) == AvailableIn(EMOJI_POOL, secretPattern)

\* the drawn emoji is pushed without the includes test
DecoyStepUnchecked(gridEmojis, availableEmojis, randomIndex) ==
  Append(gridEmojis, availableEmojis[randomIndex + 1])

\* the includes test is inverted
DecoyStepInverted(gridEmojis, availableEmojis, randomIndex) ==
  LET emoji == availableEmojis[randomIndex + 1]
  IN  IF emoji \in SeqToSet(gridEmojis)
        THEN Append(gridEmojis, emoji)
        ELSE gridEmojis

\* lines 144-148: one pass of the while body with randomIndex drawn
DecoyStep(gridEmojis, availableEmojis, randomIndex) ==
  LET emoji == availableEmojis[randomIndex + 1]
  IN  IF emoji \notin SeqToSet(gridEmojis)
        THEN Append(gridEmojis, emoji)
        ELSE gridEmojis

RECURSIVE FillDecoys(_, _, _)

\* lines 143-149: the while loop over a sequence of draws; it stops as soon
\* as the grid is full
FillDecoys(gridEmojis, availableEmojis, draws) ==
  IF Len(gridEmojis) >= GRID_SIZE \/ Len(draws) = 0 THEN gridEmojis
  ELSE FillDecoys(DecoyStep(gridEmojis, availableEmojis, draws[1]),
                  availableEmojis, Tail(draws))

\* lines 136-153
generateShuffledGrid(secretPattern, decoyDraws, shuffleDraws) ==
  shuffleArray(FillDecoys(secretPattern, AvailableEmojis(secretPattern),
                          decoyDraws),
               shuffleDraws)

\* the draws of the decoy loop in the request-level specifications: a run
\* with repeated and already chosen indexes (GridSpec explores every draw)
DecoyTapes ==
  { << 8, 8, 7, 6, 8, 5, 4, 7, 3 >> }

\* the draws of the shuffle in the request-level specifications: j = 0 at
\* every index
ShuffleTapes ==
  { << 0, 0, 0, 0, 0, 0, 0, 0 >> }

(***************************************************************************)
(* The session table (line 73) and the responses                           *)
(***************************************************************************)
\* sessions.get(key)
SessionsGet(table, key) == IF key \in DOMAIN table THEN table[key] ELSE Undefined

\* sessions.set(key, session)
SessionsSet(table, key, session) ==
  [ k \in DOMAIN table \cup {key} |-> IF k = key THEN session ELSE table[k] ]

\* the whole table is emptied
SessionsClear(table, key) == [ k \in {} |-> table[k] ]

\* sessions.delete(key)
SessionsDelete(table, key) == [ k \in DOMAIN table \ {key} |-> table[k] ]

\* the value of a number field the response does not carry
NoNumber == 0 - 1

Response(status, result, error) ==
  [ status |-> status, result |-> result, error |-> error,
    session_id |-> "", grid |-> << >>, expires_in |-> NoNumber,
    user_id |-> "", attempts_remaining |-> NoNumber ]

InvalidRequest == Response(400, "", "INVALID_REQUEST")

InternalError == Response(500, "", "INTERNAL_ERROR")

(***************************************************************************)
(* POST /start-auth (lines 182-245)                                        *)
(***************************************************************************)
\* lines 187 and 196: the request passes both checks
StartAuthAccepts(user_id) ==
  /\ Truthy(user_id)
  /\ TypeOf(user_id) = "string"
  /\ Truthy(UserLookup(user_id.s))

\* the session gets no lifetime
NewSessionNoLifetime(sessionId, user_id, user, shuffledGrid, clock) ==
  [ sessionId |-> sessionId,
    userId |-> user_id.s,
    secretHash |-> user.secretHash,
    grid |-> shuffledGrid,
    createdAt |-> clock,
    expiresAt |-> clock,
    used |-> FALSE,
    attempts |-> 0,
    maxAttempts |-> MAX_ATTEMPTS ]

\* lines 213-223
NewSession(sessionId, user_id, user, shuffledGrid, clock) ==
  [ sessionId |-> sessionId,
    userId |-> user_id.s,
    secretHash |-> user.secretHash,
    grid |-> shuffledGrid,
    createdAt |-> clock,
    expiresAt |-> clock + SESSION_TIMEOUT_MS,
    used |-> FALSE,
    attempts |-> 0,
    maxAttempts |-> MAX_ATTEMPTS ]

\* the handler: the table and the response it leaves
StartAuthHandler(table, clock, user_id, sessionId, decoyDraws, shuffleDraws) ==
  IF ~Truthy(user_id) \/ TypeOf(user_id) # "string"
    THEN [ table |-> table, res |-> InvalidRequest ]
  ELSE LET user == UserLookup(user_id.s)
       IN  IF ~Truthy(user)
             THEN [ table |-> table, res |-> Response(404, "", "USER_NOT_FOUND") ]
           ELSE LET secretPattern == DemoSecretPattern
                    shuffledGrid ==
                      generateShuffledGrid(secretPattern, decoyDraws, shuffleDraws)
                    session ==
                      NewSession(sessionId, user_id, user, shuffledGrid, clock)
                IN  [ table |-> SessionsSet(table, sessionId, session),
                      res |-> [ Response(200, "", "") EXCEPT
                                  !.session_id = sessionId,
                                  !.grid = shuffledGrid,
                                  !.expires_in = SESSION_TIMEOUT_MS \div 1000 ] ]

(***************************************************************************)
(* POST /verify-auth (lines 254-371)                                       *)
(***************************************************************************)
\* lines 259 and 266: the request passes both validations
VerifyRequestValid(session_id, input) ==
  /\ Truthy(session_id)
  /\ TypeOf(session_id) = "string"
  /\ Truthy(input)
  /\ input.t = "array"
  /\ Len(input.items) = PATTERN_LENGTH

\* the length of the array is not tested
InputMalformedAnyLength(input) == ~Truthy(input) \/ input.t # "array"

\* line 266: !input || !Array.isArray(input) || input.length !== 3
InputMalformed(input) ==
  ~Truthy(input) \/ input.t # "array" \/ Len(input.items) # PATTERN_LENGTH

\* the lookup result is taken as found without the check
SessionMissingUnchecked(session) == FALSE

\* line 277: !session
SessionMissing(session) == session = Undefined

\* the expiry test allows one more timeout period
IsExpiredLate(clock, session) ==
  clock > session.expiresAt + SESSION_TIMEOUT_MS

\* line 299: now > session.expiresAt
IsExpired(clock, session) == clock > session.expiresAt

\* the budget test is off by one
AttemptsExhaustedOffByOne(session) == session.attempts > session.maxAttempts

\* lines 310 and 347: session.attempts >= session.maxAttempts
AttemptsExhausted(session) == session.attempts >= session.maxAttempts

\* the counter is not incremented
IncrementAttemptsSkipped(session) == session

\* line 321: session.attempts++
IncrementAttempts(session) == [ session EXCEPT !.attempts = @ + 1 ]

\* line 327: inputHash === session.secretHash
IsMatch(input, session) == hashVisualPattern(input) = session.secretHash

\* a match neither marks the session used nor deletes it
ConsumeOnPassKept(table, session) == [ table |-> table, session |-> session ]

\* a match marks the session used and leaves it in the table
ConsumeOnPassMarked(table, session) ==
  [ table |-> SessionsSet(table, session.sessionId,
                          [ session EXCEPT !.used = TRUE ]),
    session |-> [ session EXCEPT !.used = TRUE ] ]

\* lines 331-332: session.used = true; sessions.delete(session_id).  The
\* record is the one object the table holds, so the increment of line 321 is
\* already in the table when this runs.
ConsumeOnPass(table, session) ==
  [ table |-> SessionsDelete(table, session.sessionId),
    session |-> [ session EXCEPT !.used = TRUE ] ]

Fail(error) == Response(401, "FAIL", error)

\* the handler: the table it leaves, the response, and the session object
\* as the handler last saw it (Undefined when the lookup found none)
VerifyAuthHandler(table, clock, session_id, input) ==
  IF ~Truthy(session_id) \/ TypeOf(session_id) # "string"
    THEN [ table |-> table, res |-> InvalidRequest, session |-> Undefined ]
  ELSE IF InputMalformed(input)
    THEN [ table |-> table, res |-> InvalidRequest, session |-> Undefined ]
  ELSE LET session == SessionsGet(table, session_id.s)
       IN
    IF SessionMissing(session)
      THEN [ table |-> table, res |-> Fail("INVALID_SESSION"),
             session |-> Undefined ]
    ELSE IF session = Undefined
      \* reading session.used of undefined throws; the catch of lines 364-370
      THEN [ table |-> table, res |-> InternalError, session |-> Undefined ]
    ELSE IF session.used
      THEN [ table |-> SessionsDelete(table, session_id.s),
             res |-> Fail("SESSION_USED"), session |-> session ]
    ELSE IF IsExpired(clock, session)
      THEN [ table |-> SessionsDelete(table, session_id.s),
             res |-> Fail("SESSION_EXPIRED"), session |-> session ]
    ELSE IF AttemptsExhausted(session)
      THEN [ table |-> SessionsDelete(table, session_id.s),
             res |-> Fail("MAX_ATTEMPTS"), session |-> session ]
    ELSE LET counted == IncrementAttempts(session)
             tableCounted == SessionsSet(table, session_id.s, counted)
         IN
      IF IsMatch(input, counted)
        THEN LET consumed == ConsumeOnPass(tableCounted, counted)
             IN  [ table |-> consumed.table,
                   res |-> [ Response(200, "PASS", "") EXCEPT
                               !.user_id = consumed.session.userId ],
                   session |-> consumed.session ]
      ELSE IF AttemptsExhausted(counted)
        THEN [ table |-> SessionsDelete(tableCounted, session_id.s),
               res |-> Fail("MAX_ATTEMPTS"), session |-> counted ]
      ELSE [ table |-> tableCounted,
             res |-> [ Fail("INVALID_PATTERN") EXCEPT
                         !.attempts_remaining =
                           counted.maxAttempts - counted.attempts ],
             session |-> counted ]

(***************************************************************************)
(* cleanupExpiredSessions (lines 158-166)                                  *)
(***************************************************************************)
\* the sweep also takes a session at the instant it expires
ReaperExpiredInclusive(clock, session) == clock >= session.expiresAt

\* the sweep removes nothing
ReaperExpiredNever(clock, session) == FALSE

\* line 161: now > session.expiresAt
ReaperExpired(clock, session) == clock > session.expiresAt

cleanupExpiredSessions(table, clock) ==
  [ k \in { id \in DOMAIN table : ~ReaperExpired(clock, table[id]) } |-> table[k] ]

(***************************************************************************)
(* State                                                                   *)
(***************************************************************************)
VARIABLES
  sessions,     \* the Map of line 73: session id -> session object
  now,          \* Date.now()
  issuedAt,     \* history: every id generateUUID returned -> its expiresAt
  last,         \* the last request served and its response
  passes,       \* history: id -> number of PASS responses (capped at 2)
  trail,        \* history: id -> responses to its first wrong submissions
  shadow,       \* the table of the same run with no reaper step taken
  shadowRes,    \* the response the last request gets against shadow
  gpc,          \* where a start-auth served step by step stands
  guser,        \* the user_id of that request
  gridEmojis,   \* the local gridEmojis of generateShuffledGrid
  inflight,     \* client -> the verify-auth request it has sent that the
                \*   handler has not run for yet
  compares,     \* history: id -> number of runs of lines 321-327 (capped)
  pool,         \* the symbol pool generateShuffledGrid is run against
  sinput,       \* shuffleArray: the contents of its argument when called
  sheap,        \* shuffleArray: the contents of the array objects
  sref,         \* shuffleArray: the object its local `shuffled` names
  si,           \* shuffleArray: the loop index i
  spc,          \* shuffleArray: where the call stands
  starget       \* the ordering a shuffle is aimed at

\* the variables of the step-by-step start-auth
gridVars == << gpc, guser, gridEmojis >>

\* the variables of requests in flight
raceVars == << inflight, compares >>

\* the variables of a shuffleArray call
shuffleVars == << sinput, sheap, sref, si, spc, starget >>

vars ==
  << sessions, now, issuedAt, last, passes, trail, shadow, shadowRes,
     gpc, guser, gridEmojis, inflight, compares, pool, sinput, sheap, sref,
     si, spc, starget >>

\* the ids crypto.randomUUID returns in one run, in the order it returns them
IdNames == << "sid-1", "sid-2" >>

SessionIds == { IdNames[k] : k \in 1..Len(IdNames) }

EmptyTable == [ k \in {} |-> Undefined ]

\* user_id values a client can send: the registered user, an unknown one, a
\* name Object.prototype defines, the empty string, none, a non-string
UserIdInputs ==
  { Str("U123"), Str("unknown"), Str("constructor"), Str(""), Undefined,
    Bool(TRUE) }

\* session_id values a client can send
SessionIdInputs ==
  { Str(id) : id \in SessionIds } \cup
  { Str("never-issued"), Undefined }

SecretInput == Arr(<< Str("apple"), Str("headphones"), Str("fire") >>)

\* the secret's symbols in another order
PermutedInput == Arr(<< Str("fire"), Str("headphones"), Str("apple") >>)

\* three elements, the first a one-element array holding the first symbol
NestedInput ==
  Arr(<< Arr(<< Str("apple") >>), Str("headphones"), Str("fire") >>)

\* input values a client can send
InputValues ==
  { SecretInput, PermutedInput, NestedInput,
    Arr(<< Str("apple|headphones"), Str("fire") >>) }

\* the requests that pass the validation of lines 259-271
ValidSessionIds == { v \in SessionIdInputs : Truthy(v) /\ TypeOf(v) = "string" }

ValidInputs ==
  { v \in InputValues :
      Truthy(v) /\ v.t = "array" /\ Len(v.items) = PATTERN_LENGTH }

Idle(op) ==
  [ op |-> op, user_id |-> Undefined, session_id |-> Undefined,
    input |-> Undefined, res |-> Response(0, "", "") ]

NoTrail == [ broken |-> FALSE, seen |-> << >> ]

\* the clients that send verify-auth requests at the same time
Clients == { "client-1", "client-2" }

NoRequest == [ session_id |-> Undefined, input |-> Undefined, seen |-> NoNumber ]

NoArrays == [ array |-> << >>, shuffled |-> << >> ]

\* the state after the module is loaded, but for the symbol pool
InitButPool ==
  /\ sessions = EmptyTable
  /\ shadow = EmptyTable
  /\ now = 0
  /\ issuedAt = EmptyTable
  /\ last = Idle("boot")
  /\ shadowRes = Response(0, "", "")
  /\ passes = [ id \in SessionIds |-> 0 ]
  /\ trail = [ id \in SessionIds |-> NoTrail ]
  /\ gpc = "idle"
  /\ guser = Undefined
  /\ gridEmojis = << >>
  /\ inflight = [ c \in Clients |-> NoRequest ]
  /\ compares = [ id \in SessionIds |-> 0 ]
  /\ sinput = << >>
  /\ sheap = NoArrays
  /\ sref = "array"
  /\ si = 0
  /\ spc = "idle"
  /\ starget = << >>

Init == InitButPool /\ pool = EMOJI_POOL

\* an array of three strings other than the secret pattern in order
IsWrongTriple(input) ==
  /\ input.t = "array"
  /\ Len(input.items) = PATTERN_LENGTH
  /\ \A k \in 1..Len(input.items) : input.items[k].t = "string"
  /\ \E k \in 1..PATTERN_LENGTH : input.items[k].s # DemoSecretPattern[k]

\* line 204: generateUUID() returns an id never returned before
generateUUID == IdNames[Cardinality(DOMAIN issuedAt) + 1]

\* one start-auth request served
StartAuthStep(user_id, decoyDraws, shuffleDraws) ==
  LET accepted == StartAuthAccepts(user_id)
      sessionId == IF accepted THEN generateUUID ELSE ""
      out == StartAuthHandler(sessions, now, user_id, sessionId,
                              decoyDraws, shuffleDraws)
  IN  /\ accepted => Cardinality(DOMAIN issuedAt) < Len(IdNames)
      /\ sessions' = out.table
      /\ issuedAt' =
           IF accepted
             THEN SessionsSet(issuedAt, sessionId, now + SESSION_TIMEOUT_MS)
             ELSE issuedAt
      /\ last' = [ Idle("start-auth") EXCEPT !.user_id = user_id, !.res = out.res ]
      /\ now' = now

\* one verify-auth request served
VerifyAuthStep(session_id, input) ==
  LET out == VerifyAuthHandler(sessions, now, session_id, input)
  IN  /\ sessions' = out.table
      /\ last' = [ Idle("verify-auth") EXCEPT
                     !.session_id = session_id, !.input = input,
                     !.res = out.res ]
      /\ UNCHANGED << now, issuedAt >>

\* the trail of id after a valid request with this input got response res
TrailAfter(id, input, res) ==
  LET tr == trail[id]
      entry == << res.result, res.error, res.attempts_remaining >>
  IN  IF tr.broken \/ Len(tr.seen) >= MAX_ATTEMPTS + 1 THEN tr
      ELSE IF Len(tr.seen) = MAX_ATTEMPTS
        THEN [ tr EXCEPT !.seen = Append(@, entry) ]
      ELSE IF IsWrongTriple(input) /\ now <= issuedAt[id]
        THEN [ tr EXCEPT !.seen = Append(@, entry) ]
      ELSE [ tr EXCEPT !.broken = TRUE ]

\* the history variables after the verify-auth request
RecordVerify(session_id, input) ==
  LET res == VerifyAuthHandler(sessions, now, session_id, input).res
      known == /\ VerifyRequestValid(session_id, input)
               /\ session_id.s \in DOMAIN issuedAt
  IN  /\ passes' =
           IF known /\ res.result = "PASS"
             THEN [ passes EXCEPT ![session_id.s] = IF @ < 2 THEN @ + 1 ELSE @ ]
             ELSE passes
      /\ trail' =
           IF known
             THEN [ trail EXCEPT
                      ![session_id.s] = TrailAfter(session_id.s, input, res) ]
             ELSE trail

StartAuth ==
  \E user_id \in UserIdInputs, decoyDraws \in DecoyTapes,
     shuffleDraws \in ShuffleTapes :
    /\ StartAuthStep(user_id, decoyDraws, shuffleDraws)
    /\ UNCHANGED << passes, trail, shadow, shadowRes, gridVars, raceVars,
                  pool, shuffleVars >>

VerifyAuth ==
  \E session_id \in SessionIdInputs, input \in InputValues :
    /\ VerifyAuthStep(session_id, input)
    /\ RecordVerify(session_id, input)
    /\ UNCHANGED << shadow, shadowRes, gridVars, raceVars,
                  pool, shuffleVars >>

\* the setInterval callback of line 169
Cleanup ==
  /\ sessions' = cleanupExpiredSessions(sessions, now)
  /\ last' = Idle("cleanup")
  /\ UNCHANGED << now, issuedAt, passes, trail, shadow, shadowRes,
                  gridVars, raceVars, pool, shuffleVars >>

\* time passes between two callbacks
Tick ==
  /\ now < MaxTicks * CLEANUP_INTERVAL_MS
  /\ now' = now + CLEANUP_INTERVAL_MS
  /\ last' = Idle("tick")
  /\ UNCHANGED << sessions, issuedAt, passes, trail, shadow, shadowRes,
                  gridVars, raceVars,
                  pool, shuffleVars >>

Next == StartAuth \/ VerifyAuth \/ Cleanup \/ Tick

Spec == Init /\ [][Next]_vars

(***************************************************************************)
(* The same run with and without the reaper: every request is served       *)
(* against sessions, which cleanupExpiredSessions sweeps, and against      *)
(* shadow, which it never touches.                                         *)
(***************************************************************************)
ShadowStart(user_id, decoyDraws, shuffleDraws) ==
  LET sessionId == IF StartAuthAccepts(user_id) THEN generateUUID ELSE ""
      out == StartAuthHandler(shadow, now, user_id, sessionId,
                              decoyDraws, shuffleDraws)
  IN  /\ shadow' = out.table
      /\ shadowRes' = out.res

ShadowVerify(session_id, input) ==
  LET out == VerifyAuthHandler(shadow, now, session_id, input)
  IN  /\ shadow' = out.table
      /\ shadowRes' = out.res

TwinStartAuth ==
  \E user_id \in UserIdInputs, decoyDraws \in DecoyTapes,
     shuffleDraws \in ShuffleTapes :
    /\ StartAuthStep(user_id, decoyDraws, shuffleDraws)
    /\ ShadowStart(user_id, decoyDraws, shuffleDraws)
    /\ UNCHANGED << passes, trail, gridVars, raceVars,
                  pool, shuffleVars >>

TwinVerifyAuth ==
  \E session_id \in SessionIdInputs, input \in InputValues :
    /\ VerifyAuthStep(session_id, input)
    /\ ShadowVerify(session_id, input)
    /\ UNCHANGED << passes, trail, gridVars, raceVars,
                  pool, shuffleVars >>

TwinNext == TwinStartAuth \/ TwinVerifyAuth \/ Cleanup \/ Tick

ReaperSpec == Init /\ [][TwinNext]_vars

(***************************************************************************)
(* One start-auth request served step by step: every draw of the decoy     *)
(* loop of generateShuffledGrid is a step and may return any index.        *)
(***************************************************************************)
\* the draws of the shuffle in GridSpec: j = i, j = 0 and j = i - 1 at
\* every index i = 8, ..., 1
GridShuffleTapes ==
  { << 8, 7, 6, 5, 4, 3, 2, 1 >>, << 0, 0, 0, 0, 0, 0, 0, 0 >>,
    << 7, 6, 5, 4, 3, 2, 1, 0 >> }

\* lines 184-201 and 208, 138: the request is validated; an accepted one
\* enters generateShuffledGrid with gridEmojis = [...secretPattern]
GridBegin ==
  \E user_id \in UserIdInputs :
    /\ gpc = "idle"
    /\ guser' = user_id
    /\ IF StartAuthAccepts(user_id)
         THEN /\ gpc' = "decoys"
              /\ gridEmojis' = DemoSecretPattern
              /\ last' = last
         ELSE /\ gpc' = "done"
              /\ gridEmojis' = gridEmojis
              /\ last' = [ Idle("start-auth") EXCEPT
                             !.user_id = user_id,
                             !.res = StartAuthHandler(sessions, now, user_id,
                                       "", << >>, << >>).res ]
    /\ UNCHANGED << sessions, now, issuedAt, passes, trail, shadow, shadowRes >>
    /\ UNCHANGED << raceVars, pool, shuffleVars >>

\* lines 143-149: one pass of the while loop
GridDraw ==
  /\ gpc = "decoys"
  /\ Len(gridEmojis) < GRID_SIZE
  /\ LET availableEmojis == AvailableEmojis(DemoSecretPattern)
     IN  \E randomIndex \in 0..(Len(availableEmojis) - 1) :
           gridEmojis' = DecoyStep(gridEmojis, availableEmojis, randomIndex)
  /\ UNCHANGED << sessions, now, issuedAt, last, passes, trail, shadow,
                  shadowRes, gpc, guser >>
  /\ UNCHANGED << raceVars, pool, shuffleVars >>

\* lines 152 and 211-236: the loop has ended; the grid is shuffled, the
\* session stored and the response sent
GridFinish ==
  /\ gpc = "decoys"
  /\ Len(gridEmojis) >= GRID_SIZE
  /\ \E shuffleDraws \in GridShuffleTapes :
       LET shuffledGrid == shuffleArray(gridEmojis, shuffleDraws)
           sessionId == generateUUID
           session == NewSession(sessionId, guser, UserLookup(guser.s),
                                 shuffledGrid, now)
       IN  /\ sessions' = SessionsSet(sessions, sessionId, session)
           /\ issuedAt' = SessionsSet(issuedAt, sessionId,
                                      now + SESSION_TIMEOUT_MS)
           /\ last' = [ Idle("start-auth") EXCEPT
                          !.user_id = guser,
                          !.res = [ Response(200, "", "") EXCEPT
                                      !.session_id = sessionId,
                                      !.grid = shuffledGrid,
                                      !.expires_in =
                                        SESSION_TIMEOUT_MS \div 1000 ] ]
  /\ gpc' = "done"
  /\ UNCHANGED << now, passes, trail, shadow, shadowRes, guser, gridEmojis >>
  /\ UNCHANGED << raceVars, pool, shuffleVars >>

GridNext == GridBegin \/ GridDraw \/ GridFinish

GridSpec == Init /\ [][GridNext]_vars

(***************************************************************************)
(* Requests in flight.  express.json (line 65) reads a request's body      *)
(* before the handler is called, so several verify-auth requests can be    *)
(* pending at once; the handlers of lines 254-371 contain no await and no  *)
(* callback, so each runs to completion, in any order, between timer       *)
(* callbacks.  One session is opened; both clients aim at it.              *)
(***************************************************************************)
\* the inputs the clients send: the secret and a wrong triple
RaceInputs == { SecretInput, PermutedInput }

\* lines 321-327 ran: the handler found the record in the table and left it
\* with its counter raised
Compared(table, session_id, out) ==
  /\ session_id.t = "string"
  /\ session_id.s \in DOMAIN table
  /\ out.session # Undefined
  /\ out.session.attempts > table[session_id.s].attempts

RaceStartAuth ==
  \E decoyDraws \in DecoyTapes, shuffleDraws \in ShuffleTapes :
    /\ issuedAt = EmptyTable
    /\ StartAuthStep(Str("U123"), decoyDraws, shuffleDraws)
    /\ UNCHANGED << passes, trail, shadow, shadowRes, gridVars, raceVars,
                    pool, shuffleVars >>

\* a client's request arrives; seen is the attempts counter of the session
\* at that moment (none when the id is not in the table)
Receive(c) ==
  \E id \in DOMAIN issuedAt, input \in RaceInputs :
    /\ inflight[c] = NoRequest
    /\ inflight' =
         [ inflight EXCEPT
             ![c] = [ session_id |-> Str(id), input |-> input,
                      seen |-> IF id \in DOMAIN sessions
                                 THEN sessions[id].attempts ELSE NoNumber ] ]
    /\ UNCHANGED << sessions, now, issuedAt, last, passes, trail, shadow,
                    shadowRes, gridVars, compares, pool, shuffleVars >>

\* the handler runs for a pending request
Serve(c) ==
  LET request == inflight[c]
      out == VerifyAuthHandler(sessions, now, request.session_id,
                               request.input)
  IN  /\ request # NoRequest
      /\ VerifyAuthStep(request.session_id, request.input)
      /\ compares' =
           IF Compared(sessions, request.session_id, out)
             THEN [ compares EXCEPT
                      ![request.session_id.s] =
                        IF @ <= MAX_ATTEMPTS THEN @ + 1 ELSE @ ]
             ELSE compares
      /\ inflight' = [ inflight EXCEPT ![c] = NoRequest ]
      /\ UNCHANGED << passes, trail, shadow, shadowRes, gridVars, pool,
                      shuffleVars >>

RaceNext ==
  \/ RaceStartAuth
  \/ \E c \in Clients : Receive(c)
  \/ \E c \in Clients : Serve(c)
  \/ Cleanup
  \/ Tick

RaceSpec == Init /\ [][RaceNext]_vars

(***************************************************************************)
(* The timer of line 169 keeps firing and the clock keeps advancing.  The  *)
(* model's clock stops after MaxTicks intervals, so sessions are opened    *)
(* only while it can still pass their expiresAt.                           *)
(***************************************************************************)
LiveStartAuth ==
  /\ now + SESSION_TIMEOUT_MS < MaxTicks * CLEANUP_INTERVAL_MS
  /\ StartAuth

LiveNext == LiveStartAuth \/ VerifyAuth \/ Cleanup \/ Tick

LiveSpec ==
  Init /\ [][LiveNext]_vars /\ WF_vars(Cleanup) /\ WF_vars(Tick)

(***************************************************************************)
(* generateShuffledGrid (lines 136-153) run against a configured pool: the *)
(* shipped EMOJI_POOL, one that leaves 5 eligible decoys and one that      *)
(* leaves none.  Every pass of the while loop is a step.                   *)
(***************************************************************************)
GridPools ==
  { EMOJI_POOL,
    SubSeq(EMOJI_POOL, 1, Len(EMOJI_POOL) - 4),
    DemoSecretPattern }

\* the secret patterns the function is called with
PoolSecrets == { DemoSecretPattern, << "gem", "rocket", "apple" >> }

PoolInit == InitButPool /\ pool \in GridPools

\* the argument of the running call: gridEmojis starts as its copy (line
\* 138) and only grows at the end
PoolSecret == SubSeq(gridEmojis, 1, PATTERN_LENGTH)

\* line 138: gridEmojis = [...secretPattern]
EnterWith(secretPattern) ==
  /\ gpc = "idle"
  /\ gpc' = "decoys"
  /\ gridEmojis' = secretPattern
  /\ UNCHANGED << sessions, now, issuedAt, last, passes, trail, shadow,
                  shadowRes, guser, raceVars, pool, shuffleVars >>

\* a call with a pattern made of symbols of the pool
PoolEnter ==
  \E secretPattern \in PoolSecrets :
    /\ SeqToSet(secretPattern) \subseteq SeqToSet(pool)
    /\ EnterWith(secretPattern)

\* lines 143-149: one pass of the while loop, the pool's filter not empty
PoolDraw ==
  /\ gpc = "decoys"
  /\ Len(gridEmojis) < GRID_SIZE
  /\ LET availableEmojis == AvailableIn(pool, PoolSecret)
     IN  /\ Len(availableEmojis) > 0
         /\ \E randomIndex \in 0..(Len(availableEmojis) - 1) :
              gridEmojis' = DecoyStep(gridEmojis, availableEmojis, randomIndex)
  /\ UNCHANGED << sessions, now, issuedAt, last, passes, trail, shadow,
                  shadowRes, gpc, guser, raceVars, pool, shuffleVars >>

\* line 144 with nothing to draw from: crypto.randomInt(0, 0) throws a
\* RangeError, which the catch of lines 238-244 answers with INTERNAL_ERROR
PoolThrow ==
  /\ gpc = "decoys"
  /\ Len(gridEmojis) < GRID_SIZE
  /\ Len(AvailableIn(pool, PoolSecret)) = 0
  /\ gpc' = "error"
  /\ last' = [ Idle("start-auth") EXCEPT !.res = InternalError ]
  /\ UNCHANGED << sessions, now, issuedAt, passes, trail, shadow, shadowRes,
                  guser, gridEmojis, raceVars, pool, shuffleVars >>

\* line 152: the loop has ended and the shuffled grid is returned
PoolReturn ==
  \E shuffleDraws \in GridShuffleTapes :
    /\ gpc = "decoys"
    /\ Len(gridEmojis) >= GRID_SIZE
    /\ gpc' = "returned"
    /\ last' = [ Idle("start-auth") EXCEPT
                   !.res = [ Response(200, "", "") EXCEPT
                               !.grid = shuffleArray(gridEmojis, shuffleDraws) ] ]
    /\ UNCHANGED << sessions, now, issuedAt, passes, trail, shadow, shadowRes,
                    guser, gridEmojis, raceVars, pool, shuffleVars >>

PoolNext == PoolEnter \/ PoolDraw \/ PoolThrow \/ PoolReturn

PoolSpec == PoolInit /\ [][PoolNext]_vars

\* the shipped pool only
LoopNext == PoolEnter \/ PoolDraw

\* crypto.randomInt draws fairly: a pass that adds a symbol is not
\* postponed for ever while one is possible
LoopSpec == Init /\ [][LoopNext]_vars /\ WF_vars(PoolDraw)

(***************************************************************************)
(* shuffleArray (lines 121-128) called on its own, pass by pass.  Arrays   *)
(* are objects: sheap holds the contents of the caller's array and of the  *)
(* array the local `shuffled` names.  On small arrays every value of       *)
(* crypto.randomInt is tried at every pass; on the 9-symbol grid every     *)
(* pass picks which of the symbols not yet placed goes to index i, so that *)
(* the calls aim at every ordering of the grid.                            *)
(***************************************************************************)
\* line 122: const shuffled = [...array], a new array with the same elements
SpreadCopy(heap) ==
  [ heap |-> [ heap EXCEPT !.shuffled = heap.array ], ref |-> "shuffled" ]

\* the arrays the calls that try every draw are made with: empty, one
\* element, repeated elements, six distinct symbols
ShuffleInputs ==
  { << >>,
    << "apple" >>,
    << "apple", "apple", "fire" >>,
    << "apple", "fire", "apple", "rocket" >>,
    SubSeq(EMOJI_POOL, 1, 6) }

\* the grid line 152 passes to shuffleArray in the request-level
\* specifications
DemoGrid ==
  FillDecoys(DemoSecretPattern, AvailableEmojis(DemoSecretPattern),
             CHOOSE draws \in DecoyTapes : TRUE)

\* the value of crypto.randomInt(0, i + 1) (line 124) that brings emoji to
\* index i: its index among shuffled[0..i] (0 if it is not there)
DrawFor(shuffled, i, emoji) ==
  LET found == { k \in 0..i : shuffled[k + 1] = emoji }
  IN  IF found = {} THEN 0 ELSE CHOOSE k \in found : TRUE

\* lines 121-123: the call is made, the copy taken, i = length - 1; mode is
\* "loop" for a call that tries every draw, "aimed" for one on the grid
Called(array, mode) ==
  LET called == SpreadCopy([ array |-> array, shuffled |-> << >> ])
  IN  /\ spc = "idle"
      /\ sinput' = array
      /\ sheap' = called.heap
      /\ sref' = called.ref
      /\ si' = Len(array) - 1
      /\ spc' = mode
      /\ UNCHANGED << sessions, now, issuedAt, last, passes, trail, shadow,
                      shadowRes, gridVars, raceVars, pool, starget >>

ShuffleCall == \E array \in ShuffleInputs : Called(array, "loop")

AimedCall == Called(DemoGrid, "aimed")

\* lines 123-126: one pass of the for loop, j drawn from 0..i
ShuffleStep ==
  /\ spc = "loop"
  /\ si > 0
  /\ \E j \in 0..si : sheap' = [ sheap EXCEPT ![sref] = Swap(@, si, j) ]
  /\ si' = si - 1
  /\ UNCHANGED << sessions, now, issuedAt, last, passes, trail, shadow,
                  shadowRes, gridVars, raceVars, pool, sinput, sref, spc,
                  starget >>

\* line 127: return shuffled
ShuffleReturn ==
  /\ spc = "loop"
  /\ si <= 0
  /\ spc' = "returned"
  /\ UNCHANGED << sessions, now, issuedAt, last, passes, trail, shadow,
                  shadowRes, gridVars, raceVars, pool, sinput, sheap, sref,
                  si, starget >>

\* lines 123-127 on the grid: one pass, j being the draw that brings to
\* index i a symbol picked among those the ordering aimed at has not placed
\* yet (starget is that ordering from index i up); the pass at i = 1 is the
\* last and the array is returned
AimedStep ==
  /\ spc = "aimed"
  /\ si > 0
  /\ \E emoji \in SeqToSet(sinput) \ SeqToSet(starget) :
       /\ sheap' = [ sheap EXCEPT
                       ![sref] = Swap(@, si, DrawFor(@, si, emoji)) ]
       /\ starget' = << emoji >> \o starget
  /\ si' = si - 1
  /\ spc' = IF si = 1 THEN "returned" ELSE "aimed"
  /\ UNCHANGED << sessions, now, issuedAt, last, passes, trail, shadow,
                  shadowRes, gridVars, raceVars, pool, sinput, sref >>

ShuffleNext ==
  ShuffleCall \/ AimedCall \/ ShuffleStep \/ ShuffleReturn \/ AimedStep

ShuffleSpec == Init /\ [][ShuffleNext]_vars

(***************************************************************************)
(* Claims                                                                  *)
(***************************************************************************)
\* the response and table a valid verify-auth for id would get right now
VerifyNow(id, input) == VerifyAuthHandler(sessions, now, Str(id), input)

\* C1: single use.  No session id ever collects more than one PASS, and in
\* every reachable state an id that has produced PASS or is no longer in the
\* table gets no PASS from verify-auth, whatever input is sent.
C1_SingleUse ==
  /\ \A id \in SessionIds : passes[id] <= 1
  /\ \A id \in DOMAIN issuedAt :
       (passes[id] >= 1 \/ id \notin DOMAIN sessions) =>
         \A input \in InputValues : VerifyNow(id, input).res.result # "PASS"

\* a session has passed and a later verify-auth with the secret was refused
C1_Witness ==
  \E id \in SessionIds :
    /\ passes[id] = 1
    /\ last.op = "verify-auth"
    /\ last.session_id = Str(id)
    /\ last.input = SecretInput
    /\ last.res.result = "FAIL"

\* C2 as stated: a verify-auth with the correct input that follows the PASS
\* of the same session id answers FAIL with error SESSION_USED.
C2_ReplayIsSessionUsed ==
  \A id \in SessionIds :
    ( /\ passes[id] >= 1
      /\ last.op = "verify-auth"
      /\ last.session_id = Str(id)
      /\ last.input = SecretInput
      /\ last.res.result # "PASS" ) =>
        (last.res.result = "FAIL" /\ last.res.error = "SESSION_USED")

ExpectedTrail ==
  << << "FAIL", "INVALID_PATTERN", 2 >>,
     << "FAIL", "INVALID_PATTERN", 1 >>,
     << "FAIL", "MAX_ATTEMPTS", NoNumber >>,
     << "FAIL", "INVALID_SESSION", NoNumber >> >>

\* C3: attempt budget sequence.  The first three verify-auth calls of a
\* session, when each carries a wrong 3-symbol input and arrives before the
\* session expires, answer INVALID_PATTERN with 2 left, INVALID_PATTERN with
\* 1 left, MAX_ATTEMPTS; after the third the id is out of the table and the
\* fourth call answers INVALID_SESSION.
C3_AttemptBudgetSequence ==
  \A id \in SessionIds :
    ~trail[id].broken =>
      /\ trail[id].seen = SubSeq(ExpectedTrail, 1, Len(trail[id].seen))
      /\ Len(trail[id].seen) >= MAX_ATTEMPTS => id \notin DOMAIN sessions

\* a session has gone through the three wrong submissions and a fourth call
C3_Witness ==
  \E id \in SessionIds :
    ~trail[id].broken /\ Len(trail[id].seen) = MAX_ATTEMPTS + 1

\* C4: expiry.  For every session still in the table with the clock past its
\* expiresAt, verify-auth with any 3-element input, the secret included,
\* answers FAIL/SESSION_EXPIRED, deletes the session and leaves its attempt
\* counter as it was.
C4_ExpiredIsRejected ==
  \A id \in DOMAIN sessions, input \in ValidInputs :
    now > sessions[id].expiresAt =>
      LET out == VerifyNow(id, input)
      IN  /\ out.res.result = "FAIL"
          /\ out.res.error = "SESSION_EXPIRED"
          /\ id \notin DOMAIN out.table
          /\ out.session.attempts = sessions[id].attempts

\* the secret was submitted to an unswept expired session with attempts left
C4_Witness ==
  /\ last.op = "verify-auth"
  /\ last.input = SecretInput
  /\ last.res.error = "SESSION_EXPIRED"
  /\ last.session_id.s \notin DOMAIN sessions
  /\ now > issuedAt[last.session_id.s]

C7_UnknownSession ==
  \A session_id \in ValidSessionIds, input \in ValidInputs :
    session_id.s \notin DOMAIN sessions =>
      LET out == VerifyAuthHandler(sessions, now, session_id, input)
      IN  /\ out.res = Fail("INVALID_SESSION")
          /\ out.table = sessions

\* verify-auth was answered INVALID_SESSION for an id removed earlier while
\* another session is in the table
C7_Witness ==
  /\ last.op = "verify-auth"
  /\ last.res.error = "INVALID_SESSION"
  /\ last.session_id.s \in DOMAIN issuedAt
  /\ sessions # EmptyTable

\* C8 as stated: start-auth for a user id that is not in the registry
\* answers 404 USER_NOT_FOUND, a missing or non-string user_id answers 400
\* INVALID_REQUEST, and neither adds a session, so every session in the
\* table belongs to a registered user.
C8_UnknownUserRejected ==
  /\ last.op = "start-auth" =>
       /\ ( /\ last.user_id.t = "string"
            /\ last.user_id.s # ""
            /\ last.user_id.s \notin DOMAIN UserRegistry ) =>
              (last.res.status = 404 /\ last.res.error = "USER_NOT_FOUND")
       /\ last.user_id.t # "string" =>
            (last.res.status = 400 /\ last.res.error = "INVALID_REQUEST")
  /\ \A id \in DOMAIN sessions : sessions[id].userId \in DOMAIN UserRegistry

\* the input is the registered pattern of userId, symbol by symbol
EqualsSecret(input, userId) ==
  /\ userId \in DOMAIN UserRegistry
  /\ input.t = "array"
  /\ Len(input.items) = Len(UserRegistry[userId].secretPattern)
  /\ \A k \in 1..Len(input.items) :
       input.items[k] = Str(UserRegistry[userId].secretPattern[k])

\* what C9 requires of the session for a request to pass
SessionConditions(session_id, input) ==
  /\ input.t = "array"
  /\ Len(input.items) = PATTERN_LENGTH
  /\ session_id.t = "string"
  /\ session_id.s \in DOMAIN sessions
  /\ now <= sessions[session_id.s].expiresAt
  /\ sessions[session_id.s].attempts < sessions[session_id.s].maxAttempts

\* C9 as stated: verify-auth answers PASS exactly when the input has three
\* elements, the session is in the table, unexpired and below its attempt
\* budget, and the input equals the secret pattern element by element in
\* order.  (If: every request meeting the conditions would pass.  Only if:
\* a request that would pass meets the session conditions, and the input
\* of a request that did pass is the user's pattern element by element.)
C9_PassIffSecret ==
  /\ \A session_id \in SessionIdInputs, input \in InputValues :
       LET passed ==
             VerifyAuthHandler(sessions, now, session_id, input).res.result
               = "PASS"
       IN  /\ ( /\ SessionConditions(session_id, input)
                /\ EqualsSecret(input, sessions[session_id.s].userId) )
                  => passed
           /\ passed => SessionConditions(session_id, input)
  /\ (last.op = "verify-auth" /\ last.res.result = "PASS") =>
       EqualsSecret(last.input, last.res.user_id)

\* C10: the reaper does not change any verdict.  Serving the same requests
\* at the same times against the swept table and against the table no sweep
\* ever touches gives PASS to the same verify-auth calls (the two answers
\* differ only as INVALID_SESSION against SESSION_EXPIRED), and in neither
\* table does a session past its expiresAt get PASS for any input.
C10_ReaperIndependent ==
  /\ last.op = "verify-auth" =>
       /\ (last.res.result = "PASS") <=> (shadowRes.result = "PASS")
       /\ \/ last.res = shadowRes
          \/ /\ last.res = Fail("INVALID_SESSION")
             /\ shadowRes = Fail("SESSION_EXPIRED")
  /\ \A id \in DOMAIN sessions, input \in InputValues :
       now > sessions[id].expiresAt =>
         VerifyAuthHandler(sessions, now, Str(id), input).res.result # "PASS"
  /\ \A id \in DOMAIN shadow, input \in InputValues :
       now > shadow[id].expiresAt =>
         VerifyAuthHandler(shadow, now, Str(id), input).res.result # "PASS"

\* the reaper removed an expired session the unswept table still held, and
\* the secret was then submitted for it
C10_Witness ==
  /\ last.op = "verify-auth"
  /\ last.input = SecretInput
  /\ last.res.error = "INVALID_SESSION"
  /\ shadowRes.error = "SESSION_EXPIRED"

\* C6: a start-auth for a registered user answers with a grid of exactly 9
\* pairwise distinct symbols in which every symbol of that user's pattern
\* occurs exactly once, stores that grid, and stores as secretHash the
\* digest of that user's pattern joined with "|".
C6_GridHoldsSecret ==
  ( /\ gpc = "done"
    /\ guser.t = "string"
    /\ guser.s \in DOMAIN UserRegistry ) =>
      LET grid == last.res.grid
          session == sessions[last.res.session_id]
          pattern == UserRegistry[guser.s].secretPattern
      IN  /\ last.res.status = 200
          /\ Len(grid) = GRID_SIZE
          /\ \A i, j \in 1..Len(grid) : grid[i] = grid[j] => i = j
          /\ \A k \in 1..Len(pattern) :
               Cardinality({ i \in 1..Len(grid) : grid[i] = pattern[k] }) = 1
          /\ session.grid = grid
          /\ session.userId = guser.s
          /\ session.secretHash =
               hashVisualPattern(Arr([ k \in 1..Len(pattern) |-> Str(pattern[k]) ]))

\* a registered user's start-auth has finished: the decoy loop drew the
\* pool out of order (its last decoy is the first eligible symbol) and the
\* shuffle moved the pattern's symbols from the head of the grid
C6_Witness ==
  /\ gpc = "done"
  /\ guser = Str("U123")
  /\ last.res.status = 200
  /\ gridEmojis[GRID_SIZE] = "rocket"
  /\ SubSeq(last.res.grid, 1, PATTERN_LENGTH) # DemoSecretPattern

\* requests the validation of lines 259-271 refuses, beyond those the
\* actions send: session ids that are missing, empty or not strings, and
\* inputs that are missing, not arrays, or arrays of another length
MalformedSessionIds ==
  { Undefined, Null, Str(""), Bool(TRUE), Arr(<< Str("sid-1") >>) }

MalformedInputs ==
  { Undefined, Null, Str(""), Str("apple,headphones,fire"), Bool(TRUE),
    Arr(<< >>),
    Arr(<< Str("apple"), Str("headphones") >>),
    Arr(<< Str("apple"), Str("headphones"), Str("fire"), Str("rocket") >>) }

\* C12: validation comes before any session state.  In every reachable
\* state a verify-auth whose session_id is missing or not a string, or whose
\* input is missing, not an array or not of length 3, answers 400
\* INVALID_REQUEST and leaves the table as it was, whatever the state of the
\* session it names (expired, on its last attempt); and every such request
\* that was served got that answer.
C12_ValidationFirst ==
  /\ \A session_id \in SessionIdInputs \cup MalformedSessionIds,
        input \in InputValues \cup MalformedInputs :
       ~VerifyRequestValid(session_id, input) =>
         LET out == VerifyAuthHandler(sessions, now, session_id, input)
         IN  /\ out.res = InvalidRequest
             /\ out.table = sessions
  /\ ( /\ last.op = "verify-auth"
       /\ ~VerifyRequestValid(last.session_id, last.input) ) =>
         last.res = InvalidRequest

\* an input of length 2 was refused for a session that is still in the
\* table, past its expiry and on its last attempt
C12_Witness ==
  /\ last.op = "verify-auth"
  /\ last.res = InvalidRequest
  /\ last.session_id.t = "string"
  /\ last.session_id.s \in DOMAIN sessions
  /\ last.input.t = "array"
  /\ sessions[last.session_id.s].attempts = MAX_ATTEMPTS - 1
  /\ now > sessions[last.session_id.s].expiresAt

\* C13: a start-auth that succeeds adds exactly one entry, under an id that
\* was not in the table, with attempts 0, used false, maxAttempts 3,
\* createdAt the time of the call and expiresAt = createdAt + 60000, and
\* leaves every other entry as it was; every session in the table has
\* expiresAt > createdAt.
C13_StartAuthAddsOne ==
  /\ \A user_id \in UserIdInputs, decoyDraws \in DecoyTapes,
        shuffleDraws \in ShuffleTapes :
       ( /\ StartAuthAccepts(user_id)
         /\ Cardinality(DOMAIN issuedAt) < Len(IdNames) ) =>
           LET sessionId == generateUUID
               out == StartAuthHandler(sessions, now, user_id, sessionId,
                                       decoyDraws, shuffleDraws)
               session == out.table[sessionId]
           IN  /\ out.res.status = 200
               /\ out.res.session_id = sessionId
               /\ sessionId \notin DOMAIN sessions
               /\ DOMAIN out.table = DOMAIN sessions \cup { sessionId }
               /\ \A k \in DOMAIN sessions : out.table[k] = sessions[k]
               /\ session.attempts = 0
               /\ session.used = FALSE
               /\ session.maxAttempts = MAX_ATTEMPTS
               /\ session.createdAt = now
               /\ session.expiresAt = session.createdAt + SESSION_TIMEOUT_MS
  /\ \A id \in DOMAIN sessions : sessions[id].expiresAt > sessions[id].createdAt

\* a start-auth succeeded while an older session with a spent attempt was in
\* the table, and both are there
C13_Witness ==
  /\ last.op = "start-auth"
  /\ last.res.status = 200
  /\ last.res.session_id \in DOMAIN sessions
  /\ sessions[last.res.session_id].attempts = 0
  /\ \E k \in DOMAIN sessions :
       /\ k # last.res.session_id
       /\ sessions[k].attempts > 0
       /\ sessions[k].createdAt < now

\* C14: sessions are independent.  Whatever verify-auth request is served,
\* it adds no entry and every entry under an id other than the one it names
\* stays in the table exactly as it was (attempts, used flag and all).
C14_SessionsIndependent ==
  \A session_id \in SessionIdInputs, input \in InputValues :
    LET out == VerifyAuthHandler(sessions, now, session_id, input)
    IN  /\ DOMAIN out.table \subseteq DOMAIN sessions
        /\ \A k \in DOMAIN sessions :
             (session_id.t = "string" => k # session_id.s) =>
               /\ k \in DOMAIN out.table
               /\ out.table[k] = sessions[k]

\* one session of a user was just consumed (passed, exhausted or expired)
\* while another session of the same user, with one attempt spent, stays
C14_Witness ==
  /\ last.op = "verify-auth"
  /\ last.res.error \in { "", "MAX_ATTEMPTS", "SESSION_EXPIRED" }
  /\ last.res.result \in { "PASS", "FAIL" }
  /\ last.session_id.s \in DOMAIN issuedAt
  /\ last.session_id.s \notin DOMAIN sessions
  /\ \E k \in DOMAIN sessions :
       /\ sessions[k].userId = "U123"
       /\ sessions[k].attempts = 1

\* C15: one run of the reaper removes exactly the entries whose expiresAt is
\* strictly before the current time and leaves the others as they were; it
\* keeps every session that verify-auth would at that time not answer
\* SESSION_EXPIRED for (one with now = expiresAt among them), and after a
\* run no entry past its expiresAt is left.
C15_ReaperExact ==
  LET swept == cleanupExpiredSessions(sessions, now)
  IN  /\ DOMAIN swept =
           { id \in DOMAIN sessions : ~(sessions[id].expiresAt < now) }
      /\ \A k \in DOMAIN swept : swept[k] = sessions[k]
      /\ \A id \in DOMAIN sessions, input \in ValidInputs :
           VerifyNow(id, input).res.error # "SESSION_EXPIRED" =>
             id \in DOMAIN swept
      /\ last.op = "cleanup" =>
           \A id \in DOMAIN sessions : sessions[id].expiresAt >= now

\* the reaper has just run at the very instant one session expires: that
\* session is still there, and an older one, past its expiry, is gone
C15_Witness ==
  /\ last.op = "cleanup"
  /\ \E id \in DOMAIN sessions : sessions[id].expiresAt = now
  /\ \E id \in DOMAIN issuedAt :
       /\ id \notin DOMAIN sessions
       /\ issuedAt[id] < now
       /\ trail[id] = NoTrail

C11_ComparisonsBounded ==
  /\ \A id \in SessionIds : compares[id] <= MAX_ATTEMPTS
  /\ \A id \in DOMAIN sessions : sessions[id].attempts = compares[id]
  /\ \A c \in Clients :
       LET request == inflight[c]
           out == VerifyAuthHandler(sessions, now, request.session_id,
                                    request.input)
       IN  ( /\ request # NoRequest
             /\ request.session_id.s \notin DOMAIN sessions ) =>
               /\ out.table = sessions
               /\ out.session = Undefined
               /\ out.res = Fail("INVALID_SESSION")

\* two requests arrived while the session had one attempt left; the first
\* spent it and the second, still pending, finds the record gone
C11_Witness ==
  \E c \in Clients :
    /\ inflight[c] # NoRequest
    /\ inflight[c].seen = MAX_ATTEMPTS - 1
    /\ compares[inflight[c].session_id.s] = MAX_ATTEMPTS
    /\ inflight[c].session_id.s \notin DOMAIN sessions
    /\ last.op = "verify-auth"
    /\ last.res.error = "MAX_ATTEMPTS"

\* C16: with the clock advancing and the reaper firing (weak fairness on
\* both), every session that is in the table is eventually out of it,
\* whether or not any verify-auth is sent for it.
C16_EventuallyRemoved ==
  \A id \in SessionIds :
    (id \in DOMAIN sessions) ~> (id \notin DOMAIN sessions)

\* the reaper has just removed a session no verify-auth was ever sent for
C16_Witness ==
  /\ last.op = "cleanup"
  /\ \E id \in DOMAIN issuedAt :
       /\ id \notin DOMAIN sessions
       /\ trail[id] = NoTrail
       /\ passes[id] = 0
       /\ now > issuedAt[id]

\* the eligible decoys of the running call are fewer than the grid needs
ShortOfDecoys ==
  Len(AvailableIn(pool, PoolSecret)) < GRID_SIZE - Len(PoolSecret)

\* the while loop cannot end: the grid is not full and every symbol a draw
\* can return is already in it
LoopCannotEnd ==
  /\ gpc = "decoys"
  /\ Len(gridEmojis) < GRID_SIZE
  /\ Len(AvailableIn(pool, PoolSecret)) > 0
  /\ SeqToSet(AvailableIn(pool, PoolSecret)) \subseteq SeqToSet(gridEmojis)

C19_DecoyLoopTerminates ==
  /\ [](( pool = EMOJI_POOL /\ gpc = "decoys" ) =>
          <>( gpc = "decoys" /\ Len(gridEmojis) >= GRID_SIZE ))
  /\ [](( pool = EMOJI_POOL /\ gpc = "decoys"
          /\ Len(gridEmojis) >= GRID_SIZE ) =>
          LET decoys == SubSeq(gridEmojis, PATTERN_LENGTH + 1, Len(gridEmojis))
          IN  /\ Len(decoys) = GRID_SIZE - PATTERN_LENGTH
              /\ \A k \in 1..Len(decoys) :
                   /\ decoys[k] \in SeqToSet(EMOJI_POOL)
                   /\ decoys[k] \notin SeqToSet(PoolSecret)
              /\ \A i, j \in 1..Len(decoys) : decoys[i] = decoys[j] => i = j)
  /\ [](pool = EMOJI_POOL => gpc # "error")

\* the loop has reached its exit on the shipped pool with the decoys drawn
\* out of pool order: the last one added is the first eligible symbol
C19_Witness ==
  /\ pool = EMOJI_POOL
  /\ gpc = "decoys"
  /\ PoolSecret = << "gem", "rocket", "apple" >>
  /\ Len(gridEmojis) = GRID_SIZE
  /\ gridEmojis[GRID_SIZE] = "headphones"
  /\ gridEmojis[PATTERN_LENGTH + 1] = "lockkey"

\* the number of occurrences of e in seq
Count(e, seq) == Cardinality({ k \in 1..Len(seq) : seq[k] = e })

\* the last n elements of seq
Suffix(seq, n) == SubSeq(seq, Len(seq) - n + 1, Len(seq))

\* C18: shuffleArray returns a permutation of its input: throughout the
\* call and at its return the array `shuffled` has the input's length and
\* the input's symbols, each as many times, and the caller's array holds
\* what it held.  Every ordering of the 9-symbol grid is a possible output:
\* whichever symbol not yet placed is picked for index i, a draw within
\* 0..i puts it there and later passes leave it there, so the call returns
\* the ordering picked, whatever it is.
C18_ShuffleIsPermutation ==
  /\ spc # "idle" =>
       LET result == sheap[sref]
       IN  /\ Len(result) = Len(sinput)
           /\ \A e \in SeqToSet(sinput) \cup SeqToSet(result) :
                Count(e, result) = Count(e, sinput)
           /\ sheap.array = sinput
  /\ starget # << >> =>
       /\ Len(starget) = Len(sinput) - 1 - si
       /\ starget = Suffix(sheap[sref], Len(starget))
       /\ \A i, j \in 1..Len(starget) : starget[i] = starget[j] => i = j
  /\ (spc = "returned" /\ sinput = DemoGrid) =>
       /\ Len(starget) = GRID_SIZE - 1
       /\ Len(sheap[sref]) = GRID_SIZE

\* a call on the grid has returned it in reverse order
C18_Witness ==
  /\ spc = "returned"
  /\ sinput = DemoGrid
  /\ sheap.array = DemoGrid
  /\ sheap[sref] = [ k \in 1..GRID_SIZE |-> DemoGrid[GRID_SIZE + 1 - k] ]
  /\ sheap[sref] # sinput

====
